---- MODULE Spec2Model ----
(***************************************************************************)
(* A state-machine model of wheelman.py, the wheel/sdist build and upload  *)
(* automation script.  The script is one sequential thread of control; a   *)
(* state of the model is the position of that thread (pc), the values of    *)
(* the script's variables, the record of the external steps it has taken    *)
(* (log) and the little of the file system and of the interpreters that    *)
(* its control flow depends on.                                            *)
(*                                                                         *)
(* The model starts where the configuration file is loaded (line 92), with *)
(* the command line already parsed: args.target is ArgsTarget.  An         *)
(* exception nothing catches ends the process with a traceback and exit    *)
(* status 1; the model records its type in `exception'.  Configurations     *)
(* are those that carry the keys 'name', 'include_files' and 'targets'.     *)
(*                                                                         *)
(* The statements before line 92 are outside the model.  As written, three *)
(* of them stop the script early (sys is used at line 36 before its        *)
(* import, line 87 calls args.parse_args() on a name never assigned, line  *)
(* 100 is Python 2 except syntax); the model describes the pipeline that   *)
(* the statements from line 92 on define.                                  *)
(***************************************************************************)
EXTENDS Integers, Sequences, FiniteSets, TLC

VARIABLES
    pc,             \* position of the thread of control
    config,         \* the configuration mapping: {} (line 94) until loaded
    include_idx,    \* how many entries of include_files the copy loop has done
    target_idx,     \* how many targets the build loop has taken from the list
    target,         \* the build loop's variable `target', <<>> before the loop
    py_exe,         \* the variable py_exe, Unbound until line 155 binds it
    environ,        \* os.environ, fixed when the script first reads it
    only_tags,      \* line 199 (a truth value; FALSE before it is bound)
    is_tag,         \* line 200 (FALSE before it is bound)
    pypi_username,  \* line 204
    pypi_password,  \* line 205
    pypi_url,       \* line 219
    branch,         \* the arm of the if/elif/else of lines 207-264 that was taken
    dist,           \* what the dist folder holds
    egg_info,       \* whether <name>.egg-info exists
    log,            \* the external steps taken so far, in order
    exitCode,       \* the exit status of the process, Running until it ends
    exception       \* the uncaught exception that ended the process, if any

vars == <<pc, config, include_idx, target_idx, target, py_exe, environ,
          only_tags, is_tag, pypi_username, pypi_password, pypi_url, branch,
          dist, egg_info, log, exitCode, exception>>

-----------------------------------------------------------------------------
(* Bounds of the model. *)

MaxTargets == 2
MaxFiles == 2

-----------------------------------------------------------------------------
(* class ExitCodes *)

SUCCESS == 0
UNSPECIFIED == 1
MISSING_DEPENDENCIES == 10
CONFIG_FILE_NOT_FOUND == 11
CONFIG_YAML_PARSING_ERROR == 12
BUILD_FAILED_WHEEL == 20
BUILD_FAILED_SOURCE_DIST == 21
PIP_FAILURE == 30
PYPI_FAILURE == 50
PYPI_MISSING_ENVIRONMENT_VARS == 51
PYPI_MISSING_CONFIG_VARS == 52

\* The attributes of class ExitCodes.  ERROR_MISSING_DEPENDENCIES and
\* PYPI_UPLOAD_FAILURE, which lines 67, 236 and 250 read, are not among them.
ExitCodes ==
    [ SUCCESS |-> SUCCESS, UNSPECIFIED |-> UNSPECIFIED,
      MISSING_DEPENDENCIES |-> MISSING_DEPENDENCIES,
      CONFIG_FILE_NOT_FOUND |-> CONFIG_FILE_NOT_FOUND,
      CONFIG_YAML_PARSING_ERROR |-> CONFIG_YAML_PARSING_ERROR,
      BUILD_FAILED_WHEEL |-> BUILD_FAILED_WHEEL,
      BUILD_FAILED_SOURCE_DIST |-> BUILD_FAILED_SOURCE_DIST,
      PIP_FAILURE |-> PIP_FAILURE,
      PYPI_FAILURE |-> PYPI_FAILURE,
      PYPI_MISSING_ENVIRONMENT_VARS |-> PYPI_MISSING_ENVIRONMENT_VARS,
      PYPI_MISSING_CONFIG_VARS |-> PYPI_MISSING_CONFIG_VARS ]

\* The exit status of a process that an uncaught exception ends.
TracebackStatus == 1

-----------------------------------------------------------------------------
(* Values. *)

Running == -1
None == "None"
Unbound == "Unbound"

\* The interpreter that runs the script (sys.executable) and another one.
SysExecutable == "python"
Interpreters == {SysExecutable, "python38"}

\* The --target argument, and a group name that is not the argument.
ArgsTarget == "release"
OtherGroup == "nightly"

\* The exit statuses of an external command: zero and a non-zero one.
ReturnCodes == {0, 1}

\* dict.get(key, default)
Get(d, key, default) == IF key \in DOMAIN d THEN d[key] ELSE default

\* A target of the configuration: 'python', and 'sdist' and 'wheel', which
\* are optional (the model leaves out both or neither).  Every setting of
\* the flags is there, and both interpreters: the one that runs the script
\* builds nothing, the sdist only, or both; the other one is given without
\* flags, or builds the wheel only.
TargetSpecs ==
    {[python |-> SysExecutable, sdist |-> FALSE, wheel |-> FALSE],
     [python |-> SysExecutable, sdist |-> TRUE, wheel |-> FALSE],
     [python |-> SysExecutable, sdist |-> TRUE, wheel |-> TRUE]}
    \cup {[python |-> p] : p \in Interpreters \ {SysExecutable}}
    \cup {[python |-> p, sdist |-> FALSE, wheel |-> TRUE] :
            p \in Interpreters \ {SysExecutable}}

TargetLists == UNION {[1..n -> TargetSpecs] : n \in 0..MaxTargets}

\* config['targets']: no group at all, only a group that is not the one
\* asked for, or the group asked for with its list of targets.
TargetMaps ==
    {<<>>}
    \cup {[g \in {OtherGroup} |-> <<[python |-> SysExecutable, wheel |-> TRUE]>>]}
    \cup {[g \in {ArgsTarget} |-> l] : l \in TargetLists}

\* The upload endpoint of a configuration that names one.
Url == "https://upload.pypi.org/legacy/"

\* config['pypi']: 'only_upload_tags' and 'target_url' are both optional.
PypiConfigs ==
    {<<>>}
    \cup {[only_upload_tags |-> o] : o \in BOOLEAN}
    \cup {[target_url |-> u] : u \in {"", Url}}
    \cup {[only_upload_tags |-> o, target_url |-> u] : o \in BOOLEAN, u \in {"", Url}}

\* config['include_files']: no file, or the first MaxFiles names of a list.
FileNames == <<"README.md", "LICENSE", "CHANGELOG.md", "NOTICE">>
IncludeLists == {<<>>, SubSeq(FileNames, 1, MaxFiles)}

PackageName == "pkg"

\* dist holds artifacts <<i, kind>>, built for the i-th target of the list;
\* Stale is one left there by an earlier run.
Stale == <<0, "stale">>

\* The configurations: the 'pypi' section is optional.
Configs ==
    {[name |-> PackageName, include_files |-> f, targets |-> t] :
        f \in IncludeLists, t \in TargetMaps}
    \cup {[name |-> PackageName, include_files |-> f, targets |-> t, pypi |-> p] :
        f \in IncludeLists, t \in TargetMaps, p \in PypiConfigs}

\* os.environ, as far as the script reads it: a variable is a key of the
\* mapping only when it is set.
EnvTagValues == {"true", "false"}
Environs ==
    LET tag == {<<>>} \cup {[APPVEYOR_REPO_TAG |-> v] : v \in EnvTagValues}
        usr == {<<>>} \cup {[TWINE_USERNAME |-> "user"]}
        pwd == {<<>>} \cup {[TWINE_PASSWORD |-> "secret"]}
    IN  {t @@ u @@ p : t \in tag, u \in usr, p \in pwd}

\* An entry of the log: an external command (exe is the interpreter that ran
\* it) or a step inside the script (exe is NoExe), its argument, its status,
\* and the number of targets the build loop had taken when it happened.
NoExe == "-"
Entry(cmd, exe, arg, rc, iter) ==
    [cmd |-> cmd, exe |-> exe, arg |-> arg, rc |-> rc, iter |-> iter]

\* Failed with a test that only a negative status (a signal) passes.
Failed_OnlySignals(returncode) == returncode < 0

\* run(...).returncode != 0
Failed(returncode) == returncode # 0

-----------------------------------------------------------------------------
(* The ways the process ends. *)

\* exit(ExitCodes.<attr>): the attribute is looked up first, and a name that
\* class ExitCodes does not define raises AttributeError instead of exiting
\* with a status of the enumeration.
ExitStatus(attr) ==
    IF attr \in DOMAIN ExitCodes THEN ExitCodes[attr] ELSE TracebackStatus

ExitException(attr) ==
    IF attr \in DOMAIN ExitCodes THEN "none" ELSE "AttributeError"

Exit(attr) ==
    /\ pc' = "exited"
    /\ exitCode' = ExitStatus(attr)
    /\ exception' = ExitException(attr)

\* An exception that nothing catches.
Raise(exc) ==
    /\ pc' = "exited"
    /\ exitCode' = TracebackStatus
    /\ exception' = exc

Continue(next) ==
    /\ pc' = next
    /\ UNCHANGED <<exitCode, exception>>

-----------------------------------------------------------------------------
Init ==
    /\ pc = "load"
    /\ config = <<>>
    /\ include_idx = 0
    /\ target_idx = 0
    /\ target = <<>>
    /\ py_exe = Unbound
    /\ environ = <<>>
    /\ only_tags = FALSE
    /\ is_tag = FALSE
    /\ pypi_username = Unbound
    /\ pypi_password = Unbound
    /\ pypi_url = Unbound
    /\ branch = "none"
    /\ dist \in {{}, {Stale}}
    /\ egg_info = FALSE
    /\ log = <<>>
    /\ exitCode = Running
    /\ exception = "none"

pypiVars == <<environ, only_tags, is_tag, pypi_username, pypi_password,
              pypi_url, branch>>
loopVars == <<include_idx, target_idx, target, py_exe>>
fsVars == <<dist, egg_info>>

-----------------------------------------------------------------------------
(* Config set up, lines 92-111. *)

\* LoadHandler with the two except clauses in the other order: the first
\* one, except Exception, catches the YAML error too.
LoadHandler_ExceptionFirst(exc) == "CONFIG_FILE_NOT_FOUND"

\* Lines 100-111: the except clauses of the load, tried in order; every
\* exception is an Exception.
LoadHandler(exc) ==
    IF exc = "YAMLError" THEN "CONFIG_YAML_PARSING_ERROR"
    ELSE "CONFIG_FILE_NOT_FOUND"

LoadConfig ==
    /\ pc = "load"
    /\ UNCHANGED <<loopVars, pypiVars, fsVars>>
    /\ \/ \* open() or read() raises
          /\ log' = Append(log, Entry("open", NoExe, "config-file", 1, target_idx))
          /\ Exit(LoadHandler("OSError"))
          /\ UNCHANGED config
       \/ \* yaml.load raises yaml.YAMLError
          /\ log' = Append(log, Entry("yaml.load", NoExe, "config-file", 1, target_idx))
          /\ Exit(LoadHandler("YAMLError"))
          /\ UNCHANGED config
       \/ /\ config' \in Configs
          /\ log' = Append(log, Entry("yaml.load", NoExe, "config-file", 0, target_idx))
          /\ Continue("prep")

-----------------------------------------------------------------------------
(* Preparatory cleanup, lines 116-128. *)

\* What shutil.rmtree can raise: it raises when the folder is not there, and
\* may fail (or not: "none") when it is.
RmtreeRaises(exists) ==
    IF exists THEN {"none", "PermissionError"} ELSE {"FileNotFoundError"}

\* CleanupCatches narrowed to the missing folder, as the TODO of line 125
\* proposes.
CleanupCatches_NotFoundOnly(exc) == exc = "FileNotFoundError"

\* Lines 127-128 and 152-153: `except Exception: pass' catches both.
CleanupCatches(exc) == exc \in {"FileNotFoundError", "PermissionError"}

\* try: shutil.rmtree(...) / except Exception: pass, then on to `next'.
TryRmtree(exc, next) ==
    IF exc = "none" \/ CleanupCatches(exc) THEN Continue(next) ELSE Raise(exc)

CleanDist ==
    /\ pc = "prep"
    /\ \E exc \in RmtreeRaises(dist # {}) :
        /\ dist' = IF exc = "none" THEN {} ELSE dist
        /\ TryRmtree(exc, IF Len(config.include_files) = 0 THEN "for" ELSE "copy")
    /\ log' = Append(log, Entry("rmtree", NoExe, "dist", 0, target_idx))
    /\ UNCHANGED <<config, loopVars, pypiVars, egg_info>>

-----------------------------------------------------------------------------
(* Copy the include files into the package, lines 133-135. *)

\* CopyIncludeFile with a copy that is best-effort, as the cleanups are: a
\* failed copy is passed over.
CopyIncludeFile_BestEffort ==
    /\ pc = "copy"
    /\ include_idx < Len(config.include_files)
    /\ \E rc \in {0, 1} :
        log' = Append(log, Entry("copyfile", NoExe,
                                 config.include_files[include_idx + 1], rc, target_idx))
    /\ include_idx' = include_idx + 1
    /\ Continue(IF include_idx + 1 = Len(config.include_files)
                THEN "for" ELSE "copy")
    /\ UNCHANGED <<config, target_idx, target, py_exe, pypiVars, fsVars>>

CopyIncludeFile ==
    /\ pc = "copy"
    /\ include_idx < Len(config.include_files)
    /\ LET name == config.include_files[include_idx + 1] IN
       \/ \* shutil.copyfile succeeds
          /\ log' = Append(log, Entry("copyfile", NoExe, name, 0, target_idx))
          /\ include_idx' = include_idx + 1
          /\ Continue(IF include_idx + 1 = Len(config.include_files)
                      THEN "for" ELSE "copy")
       \/ \* shutil.copyfile raises, and nothing catches it
          /\ log' = Append(log, Entry("copyfile", NoExe, name, 1, target_idx))
          /\ Raise("OSError")
          /\ UNCHANGED include_idx
    /\ UNCHANGED <<config, target_idx, target, py_exe, pypiVars, fsVars>>

-----------------------------------------------------------------------------
(* Build our targets, lines 140-190. *)

\* SelectedTargets that falls back to a group the configuration does have.
SelectedTargets_AnyGroup(cfg) ==
    IF ArgsTarget \in DOMAIN cfg.targets THEN cfg.targets[ArgsTarget]
    ELSE IF DOMAIN cfg.targets # {}
    THEN cfg.targets[CHOOSE g \in DOMAIN cfg.targets : TRUE]
    ELSE <<>>

\* config['targets'].get(args.target, ())
SelectedTargets(cfg) == Get(cfg.targets, ArgsTarget, <<>>)

\* ForTarget with a loop that stops one target short of the list.
ForTarget_StopsShort ==
    /\ pc = "for"
    /\ IF target_idx + 1 < Len(SelectedTargets(config))
       THEN /\ target' = SelectedTargets(config)[target_idx + 1]
            /\ target_idx' = target_idx + 1
            /\ Continue("egg")
       ELSE /\ Continue("pypi")
            /\ UNCHANGED <<target, target_idx>>
    /\ UNCHANGED <<config, include_idx, py_exe, pypiVars, fsVars, log>>

\* ForTarget that goes through the egg-info cleanup for the first target
\* only, and binds py_exe itself for the later ones.
ForTarget_CleansOnce ==
    /\ pc = "for"
    /\ IF target_idx < Len(SelectedTargets(config))
       THEN /\ target' = SelectedTargets(config)[target_idx + 1]
            /\ target_idx' = target_idx + 1
            /\ IF target_idx = 0
               THEN Continue("egg") /\ UNCHANGED py_exe
               ELSE Continue("pip") /\ py_exe' = target'["python"]
       ELSE /\ Continue("pypi")
            /\ UNCHANGED <<target, target_idx, py_exe>>
    /\ UNCHANGED <<config, include_idx, pypiVars, fsVars, log>>

\* ForTarget that walks the list from its end.
ForTarget_Reversed ==
    /\ pc = "for"
    /\ IF target_idx < Len(SelectedTargets(config))
       THEN /\ target' = SelectedTargets(config)[Len(SelectedTargets(config)) - target_idx]
            /\ target_idx' = target_idx + 1
            /\ Continue("egg")
       ELSE /\ Continue("pypi")
            /\ UNCHANGED <<target, target_idx>>
    /\ UNCHANGED <<config, include_idx, py_exe, pypiVars, fsVars, log>>

\* Line 140: the loop takes the next target of the list, or ends.
ForTarget ==
    /\ pc = "for"
    /\ IF target_idx < Len(SelectedTargets(config))
       THEN /\ target' = SelectedTargets(config)[target_idx + 1]
            /\ target_idx' = target_idx + 1
            /\ Continue("egg")
       ELSE /\ Continue("pypi")
            /\ UNCHANGED <<target, target_idx>>
    /\ UNCHANGED <<config, include_idx, py_exe, pypiVars, fsVars, log>>

\* Lines 144-158: the egg-info cleanup, then py_exe is bound.
CleanEggInfo ==
    /\ pc = "egg"
    /\ \E exc \in RmtreeRaises(egg_info) :
        /\ egg_info' = IF exc = "none" THEN FALSE ELSE egg_info
        /\ TryRmtree(exc, "pip")
    /\ log' = Append(log, Entry("rmtree", NoExe, "egg-info", 0, target_idx))
    /\ py_exe' = target["python"]
    /\ UNCHANGED <<config, include_idx, target_idx, target, pypiVars, dist>>

\* Lines 160-161.
InstallWheel ==
    /\ pc = "pip"
    /\ \E returncode \in ReturnCodes :
        /\ log' = Append(log, Entry("pip install", py_exe, "wheel", returncode, target_idx))
        /\ IF Failed(returncode)
           THEN Exit("PIP_FAILURE")
           ELSE Continue("sdist")
    /\ UNCHANGED <<config, loopVars, pypiVars, fsVars>>

\* What a build that returned `returncode' leaves in dist.
Built(kind, returncode) ==
    IF returncode = 0 THEN {<<target_idx, kind>>} ELSE {}

\* TargetFlag with a default of True.
TargetFlag_DefaultTrue(t, key) == Get(t, key, TRUE)

\* target.get(key, False)
TargetFlag(t, key) == Get(t, key, FALSE)

\* One build of the current target, if its flag asks for it: `setup.py arg',
\* and exit(ExitCodes.<failure>) when it fails.
BuildStep(at, key, arg, failure, next) ==
    /\ pc = at
    /\ IF TargetFlag(target, key)
       THEN \E returncode \in ReturnCodes :
            /\ log' = Append(log, Entry("setup.py", py_exe, arg, returncode, target_idx))
            /\ dist' = dist \cup Built(arg, returncode)
            /\ egg_info' = TRUE
            /\ IF Failed(returncode)
               THEN Exit(failure)
               ELSE Continue(next)
       ELSE /\ Continue(next)
            /\ UNCHANGED <<log, fsVars>>
    /\ UNCHANGED <<config, loopVars, pypiVars>>

\* BuildSdist that exits with the wheel build's code.
BuildSdist_WheelCode ==
    BuildStep("sdist", "sdist", "sdist", "BUILD_FAILED_WHEEL", "wheel")

\* Lines 174-179.
BuildSdist ==
    BuildStep("sdist", "sdist", "sdist", "BUILD_FAILED_SOURCE_DIST", "wheel")

\* Lines 185-190.
BuildWheel ==
    BuildStep("wheel", "wheel", "bdist_wheel", "BUILD_FAILED_WHEEL", "for")

-----------------------------------------------------------------------------
(* Pypi stuff, lines 195-267. *)

\* config.get("pypi", {})
PypiConfig(cfg) == Get(cfg, "pypi", <<>>)

\* Line 199.
OnlyTags(cfg) == Get(PypiConfig(cfg), "only_upload_tags", TRUE)

\* Line 200.
IsTag(env) == Get(env, "APPVEYOR_REPO_TAG", "false") = "true"

\* ShouldUpload without the `or (not only_tags)' alternative.
ShouldUpload_TagsOnly(username, password, onlyTags, isTag) ==
    /\ username # None
    /\ password # None
    /\ onlyTags /\ isTag

\* Lines 207-212: the condition of the upload branch.
ShouldUpload(username, password, onlyTags, isTag) ==
    /\ username # None
    /\ password # None
    /\ (onlyTags /\ isTag) \/ ~onlyTags

\* OnlyOneCredential without the comparison of the two values.
OnlyOneCredential_NoCompare(username, password) ==
    (username = None) \/ (password = None)

\* OnlyOneCredential with `and' where the source has `or'.
OnlyOneCredential_And(username, password) ==
    /\ (username = None) /\ (password = None)
    /\ username # password

\* Lines 252-253: the condition of the elif branch.
OnlyOneCredential(username, password) ==
    /\ (username = None) \/ (password = None)
    /\ username # password

\* Lines 195-212 and 252-264: the values are read and the branch is taken.
PypiDecision ==
    /\ pc = "pypi"
    /\ \E env \in Environs :
        LET username == Get(env, "TWINE_USERNAME", None)
            password == Get(env, "TWINE_PASSWORD", None)
            onlyTags == OnlyTags(config)
            isTag == IsTag(env)
        IN  /\ environ' = env
            /\ only_tags' = onlyTags
            /\ is_tag' = isTag
            /\ pypi_username' = username
            /\ pypi_password' = password
            /\ IF ShouldUpload(username, password, onlyTags, isTag)
               THEN branch' = "upload" /\ Continue("publish")
               ELSE IF OnlyOneCredential(username, password)
               THEN branch' = "missing" /\ Exit("PYPI_MISSING_ENVIRONMENT_VARS")
               ELSE branch' = "skip" /\ Continue("success")
    /\ UNCHANGED <<config, loopVars, pypi_url, fsVars, log>>

\* TargetUrl that falls back to the public index.
TargetUrl_DefaultIndex(cfg) == Get(PypiConfig(cfg), "target_url", Url)

\* Line 219.
TargetUrl(cfg) == Get(PypiConfig(cfg), "target_url", "")

\* Lines 219-223.
CheckTargetUrl ==
    /\ pc = "publish"
    /\ pypi_url' = TargetUrl(config)
    /\ IF pypi_url' = ""
       THEN Exit("PYPI_MISSING_CONFIG_VARS")
       ELSE Continue("twine")
    /\ UNCHANGED <<config, loopVars, environ, only_tags, is_tag,
                   pypi_username, pypi_password, branch, fsVars, log>>

\* Lines 226-228: py_exe is the last target's interpreter, and no name at
\* all when the loop body never ran.
InstallTwine ==
    /\ pc = "twine"
    /\ IF py_exe = Unbound
       THEN /\ Raise("NameError")
            /\ UNCHANGED log
       ELSE \E returncode \in ReturnCodes :
            /\ log' = Append(log, Entry("pip install", py_exe, "twine", returncode, target_idx))
            /\ IF Failed(returncode)
               THEN Exit("PIP_FAILURE")
               ELSE Continue("import")
    /\ UNCHANGED <<config, loopVars, pypiVars, fsVars>>

\* Whether `from twine.__main__ import __file__' can succeed in the running
\* interpreter: it does when twine was just installed into that interpreter,
\* and otherwise depends on what the machine had installed.
TwineImportable(installed_in) ==
    IF installed_in = SysExecutable THEN {TRUE} ELSE BOOLEAN

\* Lines 232-238.
ImportTwine ==
    /\ pc = "import"
    /\ \E ok \in TwineImportable(py_exe) :
        IF ok
        THEN /\ log' = Append(log, Entry("import", SysExecutable, "twine", 0, target_idx))
             /\ py_exe' = SysExecutable
             /\ Continue("upload")
        ELSE /\ log' = Append(log, Entry("import", SysExecutable, "twine", 1, target_idx))
             /\ Exit("ERROR_MISSING_DEPENDENCIES")
             /\ UNCHANGED py_exe
    /\ UNCHANGED <<config, include_idx, target_idx, target, pypiVars, fsVars>>

\* Upload that does not look at the status of the command.
Upload_IgnoresStatus ==
    /\ pc = "upload"
    /\ \E returncode \in ReturnCodes :
        log' = Append(log, Entry("twine upload", py_exe, pypi_url, returncode, target_idx))
    /\ Continue("success")
    /\ UNCHANGED <<config, loopVars, pypiVars, fsVars>>

\* Lines 245-250.
Upload ==
    /\ pc = "upload"
    /\ \E returncode \in ReturnCodes :
        /\ log' = Append(log, Entry("twine upload", py_exe, pypi_url, returncode, target_idx))
        /\ IF Failed(returncode)
           THEN Exit("PYPI_UPLOAD_FAILURE")
           ELSE Continue("success")
    /\ UNCHANGED <<config, loopVars, pypiVars, fsVars>>

\* Line 267.
ExitSuccess ==
    /\ pc = "success"
    /\ Exit("SUCCESS")
    /\ UNCHANGED <<config, loopVars, pypiVars, fsVars, log>>

-----------------------------------------------------------------------------
Next ==
    \/ LoadConfig
    \/ CleanDist
    \/ CopyIncludeFile
    \/ ForTarget
    \/ CleanEggInfo
    \/ InstallWheel
    \/ BuildSdist
    \/ BuildWheel
    \/ PypiDecision
    \/ CheckTargetUrl
    \/ InstallTwine
    \/ ImportTwine
    \/ Upload
    \/ ExitSuccess

Spec == Init /\ [][Next]_vars

-----------------------------------------------------------------------------
(* Vocabulary of the properties. *)

\* The log entries that are invocations of an external command.
ExternalCmds == {"pip install", "setup.py", "twine upload"}
IsExternal(e) == e.cmd \in ExternalCmds

IsInstallWheel(e) == e.cmd = "pip install" /\ e.arg = "wheel"
IsSdist(e) == e.cmd = "setup.py" /\ e.arg = "sdist"
IsWheel(e) == e.cmd = "setup.py" /\ e.arg = "bdist_wheel"
IsBuildPhase(e) == IsInstallWheel(e) \/ IsSdist(e) \/ IsWheel(e)
IsInstallTwine(e) == e.cmd = "pip install" /\ e.arg = "twine"
IsUpload(e) == e.cmd = "twine upload"

Positions(P(_)) == {i \in 1..Len(log) : P(log[i])}

\* The configuration has been loaded.
Loaded == "targets" \in DOMAIN config

\* The targets of the requested group, read off the configuration.
Requested ==
    IF Loaded /\ ArgsTarget \in DOMAIN config.targets
    THEN config.targets[ArgsTarget] ELSE <<>>

\* What a target asks for, read off the configuration.
Wants(t, key) == key \in DOMAIN t /\ t[key] = TRUE

\* The publish decision has been taken.
Decided == pypi_username # Unbound

Exited == pc = "exited"

-----------------------------------------------------------------------------
(* C1: the upload command is invoked only if, for every target of the     *)
(* selected group, 'pip install wheel' was invoked and returned zero and   *)
(* every enabled build (sdist, bdist_wheel) was invoked and returned zero; *)
(* it is never invoked after an install or build command returned         *)
(* non-zero, and it is invoked at most once in a run.                      *)
C1_UploadOnlyAfterEveryBuild ==
    /\ Cardinality(Positions(IsUpload)) <= 1
    /\ \A u \in Positions(IsUpload) :
        /\ \A j \in 1..(u - 1) : IsBuildPhase(log[j]) => log[j].rc = 0
        /\ \A k \in 1..Len(Requested) :
            LET t == Requested[k] IN
            /\ \E j \in 1..(u - 1) :
                /\ IsInstallWheel(log[j])
                /\ log[j].iter = k /\ log[j].exe = t.python /\ log[j].rc = 0
            /\ Wants(t, "sdist") =>
                \E j \in 1..(u - 1) :
                    /\ IsSdist(log[j])
                    /\ log[j].iter = k /\ log[j].exe = t.python /\ log[j].rc = 0
            /\ Wants(t, "wheel") =>
                \E j \in 1..(u - 1) :
                    /\ IsWheel(log[j])
                    /\ log[j].iter = k /\ log[j].exe = t.python /\ log[j].rc = 0

\* The upload was invoked after two targets, each with a build of its own.
C1_Witness ==
    /\ Positions(IsUpload) # {}
    /\ Len(Requested) = 2
    /\ Wants(Requested[1], "wheel")
    /\ Wants(Requested[2], "sdist") /\ Wants(Requested[2], "wheel")

-----------------------------------------------------------------------------
\* The environment and the configuration, as the decision table reads them.
HasUsername == "TWINE_USERNAME" \in DOMAIN environ
HasPassword == "TWINE_PASSWORD" \in DOMAIN environ
TagIsTrue ==
    "APPVEYOR_REPO_TAG" \in DOMAIN environ /\ environ["APPVEYOR_REPO_TAG"] = "true"
HasPypiKey(key) == "pypi" \in DOMAIN config /\ key \in DOMAIN config["pypi"]
OnlyUploadTagsSetting ==
    IF HasPypiKey("only_upload_tags") THEN config["pypi"]["only_upload_tags"] ELSE TRUE

(* C2: once the targets are built and the decision is taken, the publish   *)
(* branch is the one entered if and only if TWINE_USERNAME and             *)
(* TWINE_PASSWORD are both present and only_upload_tags is false or        *)
(* APPVEYOR_REPO_TAG is 'true'; only_upload_tags counts as true when it is *)
(* unset and the tag as false when the variable is unset.                  *)
C2_PublishDecisionTable ==
    Decided =>
        ( branch = "upload"
          <=> /\ HasUsername
              /\ HasPassword
              /\ (OnlyUploadTagsSetting = FALSE) \/ TagIsTrue )

\* The publish branch entered on a tag, with only_upload_tags left unset.
C2_Witness ==
    /\ branch = "upload"
    /\ ~HasPypiKey("only_upload_tags")
    /\ TagIsTrue

(* C3: when exactly one of TWINE_USERNAME and TWINE_PASSWORD is present,   *)
(* the decision ends the process with PYPI_MISSING_ENVIRONMENT_VARS (51),  *)
(* whatever only_upload_tags and the tag are, and neither the twine        *)
(* install nor the upload is invoked.                                      *)
C3_OneCredentialExits51 ==
    (Decided /\ (HasUsername # HasPassword)) =>
        /\ Exited
        /\ exitCode = PYPI_MISSING_ENVIRONMENT_VARS
        /\ Positions(IsInstallTwine) = {}
        /\ Positions(IsUpload) = {}

\* Only the password is set, on a tag build that uploads all commits.
C3_Witness ==
    /\ Decided
    /\ ~HasUsername /\ HasPassword
    /\ OnlyUploadTagsSetting = FALSE /\ TagIsTrue
    /\ exitCode = PYPI_MISSING_ENVIRONMENT_VARS

(* C4: once a 'pip install wheel', sdist or bdist_wheel command returns a  *)
(* non-zero status the process ends and no further external command is     *)
(* invoked: the failing command is the last entry of the log.              *)
C4_FailureHaltsEverything ==
    \A i \in Positions(IsBuildPhase) :
        log[i].rc # 0 =>
            /\ Exited
            /\ \A j \in (i + 1)..Len(log) : ~IsExternal(log[j])

\* The first of two targets failed its wheel build.
C4_Witness ==
    /\ Len(Requested) = 2
    /\ Exited
    /\ \E i \in Positions(IsWheel) : log[i].iter = 1 /\ log[i].rc # 0

-----------------------------------------------------------------------------
\* The last entry of the log, when there is one, satisfies P.
LastIs(P(_)) == log # <<>> /\ P(log[Len(log)])

FailedUpload(e) == IsUpload(e) /\ e.rc # 0

(* C5: when the upload command returns a non-zero status, the process ends *)
(* with the PYPI_FAILURE exit code (50).                                   *)
C5_UploadFailureExitsPypiFailure ==
    LastIs(FailedUpload) => (Exited /\ exitCode = PYPI_FAILURE)

\* The configuration names a non-empty upload endpoint.
HasEndpoint == HasPypiKey("target_url") /\ config["pypi"]["target_url"] # ""

(* C6: when the decision is 'publish' and a non-empty target_url is        *)
(* configured, the run invokes the twine install, ends with PIP_FAILURE    *)
(* (30) if that returns non-zero, and otherwise invokes the upload exactly *)
(* once against target_url, for every selected target list, an empty one   *)
(* included.  Stated of the runs that have ended.                          *)
C6_PublishInstallsTwineAndUploads ==
    (Exited /\ branch = "upload" /\ HasEndpoint) =>
        /\ Positions(IsInstallTwine) # {}
        /\ \A i \in Positions(IsInstallTwine) :
            IF log[i].rc # 0
            THEN exitCode = PIP_FAILURE
            ELSE /\ Cardinality(Positions(IsUpload)) = 1
                 /\ \A u \in Positions(IsUpload) :
                        log[u].arg = config["pypi"]["target_url"]

(* C7: each build-phase failure ends the process with its own code: a      *)
(* non-zero 'pip install wheel' with PIP_FAILURE (30), a non-zero sdist    *)
(* with BUILD_FAILED_SOURCE_DIST (21), a non-zero bdist_wheel with         *)
(* BUILD_FAILED_WHEEL (20); and for a target with both builds enabled the  *)
(* sdist runs first, so the wheel build runs only after it returned zero.  *)
C7_BuildFailureExitCodes ==
    /\ \A i \in Positions(IsBuildPhase) :
        log[i].rc # 0 =>
            /\ Exited
            /\ IsInstallWheel(log[i]) => exitCode = PIP_FAILURE
            /\ IsSdist(log[i]) => exitCode = BUILD_FAILED_SOURCE_DIST
            /\ IsWheel(log[i]) => exitCode = BUILD_FAILED_WHEEL
    /\ \A i \in Positions(IsWheel) :
        Wants(Requested[log[i].iter], "sdist") =>
            \E j \in 1..(i - 1) :
                IsSdist(log[j]) /\ log[j].iter = log[i].iter /\ log[j].rc = 0

\* A target with both builds enabled failed its sdist: the wheel never ran.
C7_Witness ==
    /\ Exited
    /\ target_idx >= 1
    /\ Wants(target, "sdist") /\ Wants(target, "wheel")
    /\ \E i \in Positions(IsSdist) : log[i].iter = target_idx /\ log[i].rc # 0
    /\ exitCode = BUILD_FAILED_SOURCE_DIST

(* C8: when the decision is 'publish' and the configuration has no upload  *)
(* endpoint (no pypi section, no target_url key, or an empty target_url),  *)
(* the process ends with PYPI_MISSING_CONFIG_VARS (52) before the twine    *)
(* install or the upload is invoked.                                       *)
C8_NoEndpointExits52 ==
    (branch = "upload" /\ ~HasEndpoint) =>
        /\ Positions(IsInstallTwine) = {}
        /\ Positions(IsUpload) = {}
        /\ pc = "publish" \/ (Exited /\ exitCode = PYPI_MISSING_CONFIG_VARS)

\* Publishing was decided for a configuration without a pypi section.
C8_Witness ==
    /\ branch = "upload"
    /\ Loaded /\ "pypi" \notin DOMAIN config
    /\ exitCode = PYPI_MISSING_CONFIG_VARS

\* The targets mapping is empty or lacks the requested group.
GroupMissing == Loaded /\ ArgsTarget \notin DOMAIN config["targets"]

FailedCopy(e) == e.cmd = "copyfile" /\ e.rc # 0

(* C9: for a configuration whose targets mapping is empty or lacks the     *)
(* requested group, the build phase invokes no install and no build        *)
(* command and does not end the process: a run that got past the copy      *)
(* step ends only after the publish decision.                              *)
C9_MissingGroupBuildsNothing ==
    GroupMissing =>
        /\ Positions(IsBuildPhase) = {}
        /\ pc \notin {"egg", "pip", "sdist", "wheel"}
        /\ Exited => (Decided \/ LastIs(FailedCopy))

\* The mapping has another group only, and the decision was reached.
C9_Witness ==
    /\ GroupMissing
    /\ OtherGroup \in DOMAIN config["targets"]
    /\ Decided

\* Target k asks for no build; its install step is behind the loop.
NoBuilds(t) == ~Wants(t, "sdist") /\ ~Wants(t, "wheel")
PastInstall(k) == target_idx > k \/ (target_idx = k /\ pc \notin {"egg", "pip"})
FailedInstallWheel(e) == IsInstallWheel(e) /\ e.rc # 0

(* C10: for a target whose sdist and wheel flags are both false or both    *)
(* absent, 'pip install wheel' is still invoked with the target's          *)
(* interpreter, neither build command is invoked for it, and the loop goes *)
(* on: the process does not end at that target unless its install failed.  *)
C10_NoFlagsInstallOnly ==
    \A k \in 1..target_idx :
        NoBuilds(Requested[k]) =>
            /\ \A i \in Positions(IsSdist) \cup Positions(IsWheel) : log[i].iter # k
            /\ PastInstall(k) =>
                \E i \in Positions(IsInstallWheel) :
                    log[i].iter = k /\ log[i].exe = Requested[k]["python"]
            /\ (Exited /\ ~Decided /\ target_idx = k) => LastIs(FailedInstallWheel)

\* The first target has neither flag, and the second target's install ran.
C10_Witness ==
    /\ target_idx = 2
    /\ DOMAIN Requested[1] = {"python"}
    /\ \E i \in Positions(IsInstallWheel) : log[i].iter = 2

-----------------------------------------------------------------------------
\* The inputs for which the decision table says 'skip'.
SkipInputs ==
    \/ ~HasUsername /\ ~HasPassword
    \/ /\ HasUsername /\ HasPassword
       /\ OnlyUploadTagsSetting = TRUE /\ ~TagIsTrue

(* C11: when the targets are built and the decision is 'skip' (neither     *)
(* credential, or both with only_upload_tags true on a build that is not a *)
(* tag), the process exits with SUCCESS (0), and neither the twine install *)
(* nor the upload is invoked.                                              *)
C11_SkipExitsSuccess ==
    (Decided /\ SkipInputs) =>
        /\ Positions(IsInstallTwine) = {}
        /\ Positions(IsUpload) = {}
        /\ pc = "success" \/ (Exited /\ exitCode = SUCCESS)

\* A run without credentials built a target and ended with SUCCESS.
C11_Witness ==
    /\ Decided
    /\ ~HasUsername /\ ~HasPassword
    /\ Positions(IsWheel) # {}
    /\ Exited /\ exitCode = SUCCESS

IsOpenFailure(e) == e.cmd = "open" /\ e.rc # 0
IsParseFailure(e) == e.cmd = "yaml.load" /\ e.rc # 0

(* C12: a configuration file that cannot be opened ends the process with   *)
(* CONFIG_FILE_NOT_FOUND (11), never with CONFIG_YAML_PARSING_ERROR (12);  *)
(* one that opens but is malformed ends it with 12; in both cases the      *)
(* failed load is the only step of the run: no deletion, copy, install,    *)
(* build or upload.                                                        *)
C12_LoadFailuresDistinguished ==
    /\ \A i \in Positions(IsOpenFailure) :
        Exited /\ exitCode = CONFIG_FILE_NOT_FOUND /\ Len(log) = 1
    /\ \A i \in Positions(IsParseFailure) :
        Exited /\ exitCode = CONFIG_YAML_PARSING_ERROR /\ Len(log) = 1
    /\ (Positions(IsOpenFailure) \cup Positions(IsParseFailure) # {}) =>
        dist \in {{}, {Stale}} /\ ~egg_info /\ ~Loaded

\* The file opened and was malformed, with a dist folder left from before.
C12_Witness ==
    /\ LastIs(IsParseFailure)
    /\ exitCode = CONFIG_YAML_PARSING_ERROR
    /\ dist = {Stale}

-----------------------------------------------------------------------------
(* The run as a function of its inputs.  The inputs of a run are the       *)
(* configuration, the environment and the results of its steps (the rc of  *)
(* the log entries); what the two folders held, and whether a deletion     *)
(* failed, is not among them.                                              *)

IsRmtree(e) == e.cmd = "rmtree"
IsEggRmtree(e) == e.cmd = "rmtree" /\ e.arg = "egg-info"

\* A command without its result.
Planned(cmd, exe, arg, iter) == [cmd |-> cmd, exe |-> exe, arg |-> arg, iter |-> iter]
Commands(entries) ==
    [i \in 1..Len(entries) |->
        Planned(entries[i].cmd, entries[i].exe, entries[i].arg, entries[i].iter)]

IsPrefix(a, b) == Len(a) <= Len(b) /\ SubSeq(b, 1, Len(a)) = a

\* The commands of the k-th target, in the order of the configuration.
TargetPlan(t, k) ==
    <<Planned("pip install", t["python"], "wheel", k)>>
    \o (IF Wants(t, "sdist")
        THEN <<Planned("setup.py", t["python"], "sdist", k)>> ELSE <<>>)
    \o (IF Wants(t, "wheel")
        THEN <<Planned("setup.py", t["python"], "bdist_wheel", k)>> ELSE <<>>)

\* The commands of the first k targets of the list.
RECURSIVE BuildPlan(_, _)
BuildPlan(list, k) ==
    IF k = 0 THEN <<>> ELSE BuildPlan(list, k - 1) \o TargetPlan(list[k], k)

\* The inputs for which the decision table says 'publish'.
PublishInputs ==
    /\ HasUsername /\ HasPassword
    /\ (OnlyUploadTagsSetting = FALSE) \/ TagIsTrue

\* The commands of the publish branch, once the decision is taken: none
\* without an endpoint, and none when no target bound py_exe.
PublishPlan ==
    IF Decided /\ PublishInputs /\ HasEndpoint /\ Len(Requested) > 0
    THEN <<Planned("pip install", Requested[Len(Requested)]["python"], "twine",
                   Len(Requested)),
           Planned("twine upload", SysExecutable, config["pypi"]["target_url"],
                   Len(Requested))>>
    ELSE <<>>

FullPlan == BuildPlan(Requested, Len(Requested)) \o PublishPlan

\* The exit status of an ended run, from the step that failed or, when none
\* did, from the inputs of the decision.
StatusOfFailure(e) ==
    CASE e.cmd = "open" -> CONFIG_FILE_NOT_FOUND
      [] e.cmd = "yaml.load" -> CONFIG_YAML_PARSING_ERROR
      [] e.cmd = "copyfile" -> TracebackStatus
      [] IsInstallWheel(e) \/ IsInstallTwine(e) -> PIP_FAILURE
      [] IsSdist(e) -> BUILD_FAILED_SOURCE_DIST
      [] IsWheel(e) -> BUILD_FAILED_WHEEL
      [] e.cmd = "import" -> TracebackStatus
      [] IsUpload(e) -> TracebackStatus
      [] OTHER -> SUCCESS

StatusOfDecision ==
    IF HasUsername # HasPassword THEN PYPI_MISSING_ENVIRONMENT_VARS
    ELSE IF SkipInputs THEN SUCCESS
    ELSE IF ~HasEndpoint THEN PYPI_MISSING_CONFIG_VARS
    ELSE IF Len(Requested) = 0 THEN TracebackStatus
    ELSE SUCCESS

ExpectedStatus ==
    IF log # <<>> /\ log[Len(log)].rc # 0
    THEN StatusOfFailure(log[Len(log)])
    ELSE StatusOfDecision

C13_EndWitness ==
    /\ Stale \in dist
    /\ Exited /\ exitCode = SUCCESS
    /\ Positions(IsUpload) # {}

-----------------------------------------------------------------------------
\* The deletion attempts of <name>.egg-info made for target k.
EggRmtrees(k) == {j \in Positions(IsEggRmtree) : log[j].iter = k}

(* C14: for every target, the first included, the deletion of             *)
(* <name>.egg-info is attempted after the last build command of the        *)
(* targets before it and before its own 'pip install wheel', sdist and     *)
(* bdist_wheel: every command of target k has an attempt made for k in     *)
(* front of it, and that attempt comes after every command of the earlier  *)
(* targets.                                                                *)
C14_EggInfoDeletedBeforeEachTarget ==
    LET builds == Positions(IsBuildPhase) IN
    \A i \in builds :
        LET k == log[i].iter
            attempts == EggRmtrees(k)
        IN  /\ Cardinality(attempts) = 1
            /\ \A j \in attempts :
                /\ j < i
                /\ \A m \in builds : log[m].iter < k => m < j

\* Two targets were built, the first with both of its builds.
C14_Witness ==
    /\ \E i \in Positions(IsWheel) : log[i].iter = 2
    /\ \E i \in Positions(IsSdist) : log[i].iter = 1
    /\ \E i \in Positions(IsWheel) : log[i].iter = 1

-----------------------------------------------------------------------------
IsCopy(e) == e.cmd = "copyfile"
IsDistRmtree(e) == e.cmd = "rmtree" /\ e.arg = "dist"

(* C15: a failed copy of a file of include_files ends the process with a   *)
(* failure (a non-zero status), and no install, build or upload command is *)
(* invoked in that run; the copies come after the deletion of dist and     *)
(* before the first target, which starts only when every file is copied.   *)
C15_CopyFailureEndsRun ==
    /\ \A c \in Positions(FailedCopy) :
        /\ Exited /\ exitCode # SUCCESS
        /\ c = Len(log)
        /\ Positions(IsExternal) = {}
    /\ \A c \in Positions(IsCopy) :
        /\ \E d \in Positions(IsDistRmtree) : d < c
        /\ \A m \in Positions(IsExternal) \cup Positions(IsEggRmtree) : c < m
    /\ (Loaded /\ pc \in {"for", "egg", "pip", "sdist", "wheel", "pypi"}) =>
        Commands(SelectSeq(log, IsCopy))
            = [i \in 1..Len(config["include_files"]) |->
                Planned("copyfile", NoExe, config["include_files"][i], 0)]

\* The second file of the list could not be copied.
C15_Witness ==
    /\ LastIs(FailedCopy)
    /\ include_idx = 1
    /\ Exited

-----------------------------------------------------------------------------
(* C16: the targets are processed in the order of the configuration, one   *)
(* at a time, each with 'pip install wheel', then the sdist if enabled,    *)
(* then the bdist_wheel if enabled: the install and build commands of the  *)
(* log are the beginning of that plan, and a command is invoked only when  *)
(* every one before it has returned zero.                                  *)
C16_TargetsInOrder ==
    /\ IsPrefix(Commands(SelectSeq(log, IsBuildPhase)),
                BuildPlan(Requested, Len(Requested)))
    /\ \A i, j \in Positions(IsBuildPhase) : i < j => log[i].rc = 0

\* Two targets with different interpreters, the first with both builds; the
\* second target's commands have begun.
C16_Witness ==
    /\ Len(Requested) = 2
    /\ Requested[1]["python"] # Requested[2]["python"]
    /\ Wants(Requested[1], "sdist") /\ Wants(Requested[1], "wheel")
    /\ Wants(Requested[2], "wheel")
    /\ \E i \in Positions(IsWheel) : log[i].iter = 2

-----------------------------------------------------------------------------
\* The artifacts that the build commands of this run have produced.
ProducedByRun ==
    {<<log[i].iter, log[i].arg>> :
        i \in {p \in Positions(IsSdist) \cup Positions(IsWheel) : log[p].rc = 0}}

(* C17: when the upload command is invoked, dist holds only artifacts that *)
(* build commands of this run produced, and nothing from before the run,   *)
(* also in a run whose initial deletion of dist failed.  (dist does not    *)
(* change after the build loop, so it is read off any state in which the   *)
(* upload is in the log.)                                                  *)
C17_UploadHandsOnlyFreshArtifacts ==
    Positions(IsUpload) # {} => dist \subseteq ProducedByRun

(* C18: the process exits with SUCCESS (0) only if every external command  *)
(* of the run returned zero, every target of the selected group had its    *)
(* install and each of its enabled builds invoked, and the decision was    *)
(* 'skip' or the upload was invoked and returned zero.                     *)
C18_SuccessMeansEverythingSucceeded ==
    (Exited /\ exitCode = SUCCESS) =>
        /\ \A i \in Positions(IsExternal) : log[i].rc = 0
        /\ Commands(SelectSeq(log, IsBuildPhase))
            = BuildPlan(Requested, Len(Requested))
        /\ Decided
        /\ SkipInputs \/ (\E u \in Positions(IsUpload) : log[u].rc = 0)

\* A run that built two targets and uploaded ended with SUCCESS.
C18_Witness ==
    /\ Exited /\ exitCode = SUCCESS
    /\ Len(Requested) = 2
    /\ Wants(Requested[2], "sdist")
    /\ Positions(IsUpload) # {}

IsImportTwine(e) == e.cmd = "import" /\ e.arg = "twine"

(* C19: in the publish branch, the interpreter that 'pip install twine'    *)
(* installs twine into is the interpreter that imports twine and that runs *)
(* the upload command, for every selected target list.                     *)
C19_TwineInstalledWhereItIsUsed ==
    \A i \in Positions(IsInstallTwine) :
        \A j \in Positions(IsImportTwine) \cup Positions(IsUpload) :
            log[j].exe = log[i].exe

====
